---- MODULE Spec2Model ----
(***************************************************************************)
(* Breadth-first exhaustive zip (crate breadth-first-zip).                 *)
(*                                                                         *)
(* The model follows the recursive node chain of the crate: one node per   *)
(* input iterator, ending in BaseCase, driven by BreadthFirstManager.      *)
(* Two node implementations are modelled: the replaying one (src/lib.rs,   *)
(* repeated in src/impure.rs) that clones the original enumerated          *)
(* iterator on rewind, and the caching one (src/pure.rs) built on          *)
(* Reiterator.  The chain of owned tails is kept as a sequence of nodes    *)
(* (node k owns nodes k+1.. and the BaseCase flag).                        *)
(***************************************************************************)
EXTENDS Integers, Sequences, FiniteSets, TLC

\* ---------------------------------------------------------------- bounds
\* Largest number of input iterators in a tuple.
MaxN == 3
\* Largest length of a finite input iterator.
MaxLen == 3
\* The caller stops calling next() once the manager's index_sum reached
\* MaxSum (all inputs finite) or MaxSumInf (some input infinite).
MaxSum == 7
MaxSumInf == 5

\* SpecNode: most inputs of a chain, largest index_sum handed to advance
MaxNodeN == 2
MaxNodeSum == 3
\* SpecNode: largest length of a finite input iterator
MaxNodeLen == 2
\* SpecCursor: the caller stops moving a cursor at this position
MaxCursorIndex == 5
\* SpecTrace: most inputs, largest finite length, and the index_sum at
\* which the caller stops
MaxTraceN == 3
MaxTraceLen == 2
MaxTraceSum == 4

\* SpecOverflow: most inputs, largest finite length, and the number of
\* next() calls the caller makes after the first one that stopped on the
\* overflow of index_sum
MaxOverN == 2
MaxOverLen == 2
MaxOverCalls == 2

\* SpecLoop: most inputs, largest finite length, and the index_sum at
\* which the caller stops
MaxLoopN == 2
MaxLoopLen == 2
MaxLoopSum == 3

\* The width of usize in bits and usize::MAX.  Every index_sum and every
\* position at which the callers of Spec, SpecPair, SpecNode, SpecCursor,
\* SpecTrace and SpecGuard stop is below usize::MAX; SpecOverflow runs up
\* to it.
UsizeBits == 4
UsizeMax == 2 ^ UsizeBits - 1

\* ------------------------------------------------------------ Option
None == [some |-> FALSE]
Some(v) == [some |-> TRUE, val |-> v]

\* Result<T, &'static str>
Ok(v) == [ok |-> TRUE, val |-> v]
Err(e) == [ok |-> FALSE, err |-> e]

EmptyIteratorError == "Tried to breadth-first zip an empty iterator"

\* checked_sub that also refuses a difference of zero
checked_sub_strict(a, b) == IF a <= b THEN None ELSE Some(a - b)

\* subtraction that stops at zero instead of failing
saturating_sub(a, b) == IF a < b THEN Some(0) ELSE Some(a - b)

\* usize::wrapping_add
wrapping_add(a, b) == Some((a + b) % (UsizeMax + 1))

\* usize::checked_sub / usize::checked_add
checked_sub(a, b) == IF a < b THEN None ELSE Some(a - b)
checked_add(a, b) == IF a + b > UsizeMax THEN None ELSE Some(a + b)

\* ------------------------------------------------- the input iterators
\* An input iterator (type parameter Head) is described by the sequence it
\* walks: `id` is its place in the tuple, `len` its length, `inf` whether
\* it is endless; `pos` is the number of items already taken from it.
\* The item found at position i of input id; distinct for distinct (id, i).
Item(id, i) == 7 * id + 10 * i

InputSeqs ==
    [len : 0..MaxLen, inf : {FALSE}] \cup [len : {0}, inf : {TRUE}]

HasItem(s, i) == s.inf \/ i < s.len

NewIterator(id, s) == [id |-> id, len |-> s.len, inf |-> s.inf, pos |-> 0]

\* Iterator::next of an input iterator
Iterator_next(it) ==
    IF HasItem(it, it.pos)
    THEN [iter |-> [it EXCEPT !.pos = @ + 1], item |-> Some(Item(it.id, it.pos))]
    ELSE [iter |-> it, item |-> None]

\* core::iter::Enumerate: Iterator::enumerate and Enumerate::next
\* `checks` tells whether the crate core was built with overflow checks:
\* `self.count += 1` at count = usize::MAX panics with them and wraps to 0
\* without them.
enumerate(it) == [iter |-> it, count |-> 0, checks |-> TRUE]

Enumerate_next(e) ==
    LET n == Iterator_next(e.iter) IN
    IF ~n.item.some
    THEN [iter |-> [e EXCEPT !.iter = n.iter], item |-> None,
          panicked |-> FALSE]
    ELSE IF e.count = UsizeMax /\ e.checks
    THEN [iter |-> [e EXCEPT !.iter = n.iter], item |-> None,
          panicked |-> TRUE]
    ELSE [iter |-> [e EXCEPT !.iter = n.iter,
                             !.count = (@ + 1) % (UsizeMax + 1)],
          item |-> Some(<<e.count, n.item.val>>), panicked |-> FALSE]

\* the closure with the two fields exchanged
indexed_swapped(p) == [index |-> p[2], value |-> p[1]]

\* the closure |(index, value)| Indexed { index, value }
indexed(p) == [index |-> p[1], value |-> p[2]]

\* ------------------------------------------------------------ BaseCase
\* BaseCase::advance that does not clear the flag
BaseCase_advance_keeps_flag(ch, index_sum) ==
    IF index_sum = 0 /\ ch.base
    THEN [ch |-> ch, res |-> Some(<<>>)]
    ELSE [ch |-> ch, res |-> None]

\* BaseCase::advance that does not look at index_sum
BaseCase_advance_any_sum(ch, index_sum) ==
    IF ch.base
    THEN [ch |-> [ch EXCEPT !.base = FALSE], res |-> Some(<<>>)]
    ELSE [ch |-> ch, res |-> None]

\* BaseCase::advance that spends the flag on every call
BaseCase_advance_spends(ch, index_sum) ==
    IF index_sum = 0 /\ ch.base
    THEN [ch |-> [ch EXCEPT !.base = FALSE], res |-> Some(<<>>)]
    ELSE [ch |-> [ch EXCEPT !.base = FALSE], res |-> None]

\* BaseCase::advance that sets the flag again when it fails
BaseCase_advance_rearms(ch, index_sum) ==
    IF index_sum = 0 /\ ch.base
    THEN [ch |-> [ch EXCEPT !.base = FALSE], res |-> Some(<<>>)]
    ELSE [ch |-> [ch EXCEPT !.base = TRUE], res |-> None]

\* A chain is [nodes, base, panicked, ...]: `base` is BaseCase.0.
BaseCase_advance(ch, index_sum) ==
    IF index_sum = 0 /\ ch.base
    THEN [ch |-> [ch EXCEPT !.base = FALSE], res |-> Some(<<>>)]
    ELSE [ch |-> ch, res |-> None]

\* BaseCase::rewind that leaves the flag as it is
BaseCase_rewind_noop(ch) == ch

BaseCase_rewind(ch) == [ch EXCEPT !.base = TRUE]

\* ------------------------------------- replaying node (src/lib.rs)
\* A node is [head, orig_head, current]; its tail is the rest of the chain.
\* BreadthFirstZipped::new(head, tail)
BreadthFirstZipped_new(head, tail) ==
    LET orig_head == enumerate(head)
        n == Enumerate_next(orig_head)
    IN  IF ~n.item.some
        THEN Err(EmptyIteratorError)
        ELSE Ok([tail EXCEPT !.nodes =
                    <<[head |-> n.iter, orig_head |-> orig_head,
                       current |-> indexed(n.item.val)]>> \o @])

\* The cursor of a replaying node is its fields head, orig_head, current.
\* self.current.value.clone(): the value at the cursor's position
current_value(node) == Some(node.current.value)

\* self.current = self.head.next().map(indexed).unwrap(): the end of the
\* input is a panic
head_next_unwrap(node) ==
    LET n == Enumerate_next(node.head) IN
    IF n.item.some
    THEN [node |-> [node EXCEPT !.head = n.iter,
                                !.current = indexed(n.item.val)],
          moved |-> TRUE, panicked |-> FALSE]
    ELSE [node |-> [node EXCEPT !.head = n.iter],
          moved |-> FALSE, panicked |-> TRUE]

\* self.current = self.head.next().map(indexed)?: `moved` tells whether
\* current was assigned; on None the function returns before assigning.
head_next(node) ==
    LET n == Enumerate_next(node.head) IN
    IF n.item.some
    THEN [node |-> [node EXCEPT !.head = n.iter,
                                !.current = indexed(n.item.val)],
          moved |-> TRUE, panicked |-> FALSE]
    ELSE [node |-> [node EXCEPT !.head = n.iter],
          moved |-> FALSE, panicked |-> n.panicked]

\* self.head = self.orig_head.clone();
\* self.current = self.head.next().map(indexed).unwrap()
head_rewind(node) ==
    LET n == Enumerate_next(node.orig_head) IN
    IF n.item.some
    THEN [node |-> [node EXCEPT !.head = n.iter,
                                !.current = indexed(n.item.val)],
          moved |-> TRUE, panicked |-> FALSE]
    ELSE [node |-> [node EXCEPT !.head = n.iter],
          moved |-> FALSE, panicked |-> TRUE]

\* ----------------------------------------- record of the calls made
\* Besides nodes, base and panicked a chain carries `guarded`, which is
\* TRUE for the code as written (FALSE takes the test index < index_sum out
\* of the advance loop), and three fields that only observe: when `tracing`
\* is TRUE every step of advance and rewind is appended to `log`, and
\* somes[k] counts the Some results node k has returned since it was built
\* or last rewound.  Node Len(nodes) + 1 is the BaseCase.
\* An event is the step taken (ev), the node taking it, and
\*   "advance":   advance(arg) entered with the cursor at pos
\*   "ask":       self.tail.advance(arg) about to be called, cursor at pos
\*   "underflow": index_sum.checked_sub(position) was None, arg = index_sum
\*   "current":   the cursor's value requested at position pos, with arg
\*                items in the cache (caching node)
\*   "move":      the cursor moved on from pos during advance(arg), when
\*                the tail had returned `count` Some results since its
\*                last rewind
\*   "end":       the cursor could not move on from pos
\*   "return":    advance returned, some = it returned Some
\*   "rewind":    rewind entered
Event(ev, node, arg, pos, some, count) ==
    [ev |-> ev, node |-> node, arg |-> arg, pos |-> pos, some |-> some,
     count |-> count]

Emit(ch, e) == IF ch.tracing THEN [ch EXCEPT !.log = Append(@, e)] ELSE ch

\* advance(index_sum) entered on node k, its cursor at pos
Enter(ch, k, index_sum, pos) ==
    Emit(ch, Event("advance", k, index_sum, pos, FALSE, 0))

\* advance of node k returns r
Leave(r, k) ==
    IF r.ch.tracing
    THEN [ch |-> [r.ch EXCEPT
                     !.log = Append(@, Event("return", k, 0, 0, r.res.some, 0)),
                     !.somes[k] = IF r.res.some THEN @ + 1 ELSE @],
          res |-> r.res]
    ELSE r

\* rewind entered on node k
Rewound(ch, k) ==
    IF ch.tracing
    THEN [ch EXCEPT !.log = Append(@, Event("rewind", k, 0, 0, FALSE, 0)),
                    !.somes[k] = 0]
    ELSE ch

\* Some results the tail of node k has returned since its last rewind
TailSomes(ch, k) == IF ch.tracing THEN ch.somes[k + 1] ELSE 0

\* .unwrap() of what head_rewind left in the place of node k: the node
\* with its new current, and a panic if there was no item
unwrapped(ch, k) ==
    [ch EXCEPT !.panicked = @ \/ ch.nodes[k].panicked,
               !.nodes[k] = @.node]

\* what rewind does to node k itself: self.head = self.orig_head.clone()
\* and self.current = self.head.next().map(indexed).unwrap().  The
\* statement between the two, self.tail.rewind(), touches no field of
\* node k, so rewind applies this first and rewinds the tail after it.
rewind_head(ch, k) ==
    unwrapped([ch EXCEPT !.nodes[k] = head_rewind(@)], k)

\* rewind that does nothing, on any node
rewind_noop(ch, k) == ch

\* <BreadthFirstZipped as BreadthFirst>::rewind, on node k of chain ch
RECURSIVE rewind(_, _)
rewind(ch, k) ==
    IF k > Len(ch.nodes) THEN BaseCase_rewind(Rewound(ch, k))
    ELSE rewind(rewind_head(Rewound(ch, k), k), k + 1)

\* <BreadthFirstZipped as BreadthFirst>::advance, on node k of chain ch:
\* advance is the call, advance_loop one pass of its `loop`.
RECURSIVE advance(_, _, _)
RECURSIVE advance_loop(_, _, _)
advance(ch, k, index_sum) ==
    IF k > Len(ch.nodes)
    THEN Leave(BaseCase_advance(Enter(ch, k, index_sum, 0), index_sum), k)
    ELSE Leave(advance_loop(Enter(ch, k, index_sum, ch.nodes[k].current.index),
                            k, index_sum),
               k)

advance_loop(ch, k, index_sum) ==
    LET self == ch.nodes[k]
        pos == self.current.index
        rem == checked_sub(index_sum, pos)
    IN  IF ~rem.some
        THEN [ch |-> Emit(ch, Event("underflow", k, index_sum, pos, FALSE, 0)),
              res |-> None]
        ELSE
        LET t == advance(Emit(ch, Event("ask", k, rem.val, pos, FALSE, 0)),
                         k + 1, rem.val) IN
        IF t.res.some
        THEN [ch |-> t.ch,
              res |-> Some(<<current_value(self).val, t.res.val>>)]
        ELSE IF ch.guarded /\ ~(pos < index_sum)
        THEN [ch |-> t.ch, res |-> None]
        ELSE
        LET h == head_next(self) IN
        IF ~h.moved
        THEN [ch |-> Emit([t.ch EXCEPT !.nodes[k] = h.node,
                                       !.panicked = @ \/ h.panicked],
                          Event("end", k, index_sum, pos, FALSE, 0)),
              res |-> None]
        ELSE advance_loop(
                 rewind(Emit([t.ch EXCEPT !.nodes[k] = h.node],
                             Event("move", k, index_sum, pos, TRUE,
                                   TailSomes(t.ch, k))),
                        k + 1),
                 k, index_sum)

\* --------------------------------------- caching node (src/pure.rs)
\* Reiterator is [iter, cache, index].
Reiterator_new(iter) == Ok([iter |-> iter, cache |-> <<>>, index |-> 0])

\* Reiterator::current that reads the newest cache entry on a hit
Reiterator_current_last(r) ==
    IF r.index < Len(r.cache)
    THEN [r |-> r, item |-> Some(r.cache[Len(r.cache)])]
    ELSE LET n == Iterator_next(r.iter) IN
         IF n.item.some
         THEN [r |-> [r EXCEPT !.iter = n.iter,
                               !.cache = Append(@, n.item.val)],
               item |-> n.item]
         ELSE [r |-> [r EXCEPT !.iter = n.iter], item |-> None]

\* Reiterator::current that hands a pulled item on without caching it
Reiterator_current_no_push(r) ==
    IF r.index < Len(r.cache)
    THEN [r |-> r, item |-> Some(r.cache[r.index + 1])]
    ELSE LET n == Iterator_next(r.iter) IN
         [r |-> [r EXCEPT !.iter = n.iter], item |-> n.item]

\* Reiterator::current: cache.get(index), else pull one item and push it
Reiterator_current(r) ==
    IF r.index < Len(r.cache)
    THEN [r |-> r, item |-> Some(r.cache[r.index + 1])]
    ELSE LET n == Iterator_next(r.iter) IN
         IF n.item.some
         THEN [r |-> [r EXCEPT !.iter = n.iter,
                               !.cache = Append(@, n.item.val)],
               item |-> n.item]
         ELSE [r |-> [r EXCEPT !.iter = n.iter], item |-> None]

\* next that leaves the read position where it is
Reiterator_next_stays(r) == [r |-> r, res |-> Some(<<>>)]

\* next that moves the read position on by two
Reiterator_next_twice(r) == [r |-> [r EXCEPT !.index = @ + 2], res |-> Some(<<>>)]

\* Reiterator::next
Reiterator_next(r) ==
    LET incr == checked_add(r.index, 1) IN
    IF incr.some THEN [r |-> [r EXCEPT !.index = incr.val], res |-> Some(<<>>)]
    ELSE [r |-> r, res |-> None]

\* rewind that leaves the read position where it is
Reiterator_rewind_noop(r) == r

\* rewind that also throws the cache away
Reiterator_rewind_clears(r) == [r EXCEPT !.index = 0, !.cache = <<>>]

\* Reiterator::rewind
Reiterator_rewind(r) == [r EXCEPT !.index = 0]

\* pure::BreadthFirstZipped::new(head, tail); a node is [iter]
pure_BreadthFirstZipped_new(head, tail) ==
    LET r == Reiterator_new(head) IN
    IF ~r.ok THEN r
    ELSE Ok([tail EXCEPT !.nodes = <<[iter |-> r.val]>> \o @])

\* <pure::BreadthFirstZipped as BreadthFirst>::rewind
RECURSIVE pure_rewind(_, _)
pure_rewind(ch, k) ==
    IF k > Len(ch.nodes) THEN BaseCase_rewind(Rewound(ch, k))
    ELSE pure_rewind([Rewound(ch, k) EXCEPT
                         !.nodes[k].iter = Reiterator_rewind(@)],
                     k + 1)

\* <pure::BreadthFirstZipped as BreadthFirst>::advance: pure_advance is the
\* call, pure_advance_loop one pass of its `loop`.
RECURSIVE pure_advance(_, _, _)
RECURSIVE pure_advance_loop(_, _, _)
pure_advance(ch, k, index_sum) ==
    IF k > Len(ch.nodes)
    THEN Leave(BaseCase_advance(Enter(ch, k, index_sum, 0), index_sum), k)
    ELSE Leave(pure_advance_loop(Enter(ch, k, index_sum, ch.nodes[k].iter.index),
                                 k, index_sum),
               k)

pure_advance_loop(ch, k, index_sum) ==
    LET self == ch.nodes[k]
        pos == self.iter.index
        rem == checked_sub(index_sum, pos)
    IN  IF ~rem.some
        THEN [ch |-> Emit(ch, Event("underflow", k, index_sum, pos, FALSE, 0)),
              res |-> None]
        ELSE
        LET t == pure_advance(Emit(ch, Event("ask", k, rem.val, pos, FALSE, 0)),
                              k + 1, rem.val) IN
        IF t.res.some
        THEN LET c == Reiterator_current(self.iter) IN
             [ch |-> [Emit(t.ch, Event("current", k, Len(self.iter.cache),
                                       pos, c.item.some, 0))
                         EXCEPT !.nodes[k].iter = c.r],
              res |-> IF c.item.some
                      THEN Some(<<c.item.val, t.res.val>>) ELSE None]
        ELSE IF ch.guarded /\ ~(pos < index_sum)
        THEN [ch |-> t.ch, res |-> None]
        ELSE
        LET n == Reiterator_next(self.iter) IN
        IF ~n.res.some
        THEN [ch |-> Emit(t.ch, Event("end", k, index_sum, pos, FALSE, 0)),
              res |-> None]
        ELSE pure_advance_loop(
                 pure_rewind(Emit([t.ch EXCEPT !.nodes[k].iter = n.r],
                                  Event("move", k, index_sum, pos, TRUE,
                                        TailSomes(t.ch, k))),
                             k + 1),
                 k, index_sum)

\* --------------------------------------------- tuples and the manager
Strategies == {"replaying", "caching"}

\* Unflatten for () and for (A, B, ...): builds the chain for the inputs
\* k.. of the tuple, innermost tail first; `?` passes a tail's error on.
RECURSIVE unflatten(_, _, _)
unflatten(strat, inp, k) ==
    IF k > Len(inp)
    THEN Ok([nodes |-> <<>>, base |-> TRUE, panicked |-> FALSE,
             guarded |-> TRUE, tracing |-> FALSE, log |-> <<>>,
             somes |-> <<>>])
    ELSE LET t == unflatten(strat, inp, k + 1) IN
         IF ~t.ok THEN t
         ELSE IF strat = "replaying"
              THEN BreadthFirstZipped_new(NewIterator(k, inp[k]), t.val)
              ELSE pure_BreadthFirstZipped_new(NewIterator(k, inp[k]), t.val)

\* Flatten that puts the components in reverse order
RECURSIVE flatten_reversed(_)
flatten_reversed(x) ==
    IF x = <<>> THEN <<>> ELSE flatten_reversed(x[2]) \o <<x[1]>>

\* Flatten: (A, (B, (C, ()))) to (A, B, C)
RECURSIVE flatten(_)
flatten(x) == IF x = <<>> THEN <<>> ELSE <<x[1]>> \o flatten(x[2])

\* new that builds the manager over a chain without the test
\* index < index_sum in its advance loops
BreadthFirstManager_new_unguarded(strat, tail) ==
    [strategy |-> strat, tail |-> [tail EXCEPT !.guarded = FALSE],
     index_sum |-> 0]

\* BreadthFirstManager::new
BreadthFirstManager_new(strat, tail) ==
    [strategy |-> strat, tail |-> tail, index_sum |-> 0]

\* BreadthFirstZip::breadth_first_zip: self.unflatten().map(BreadthFirstManager::new)
breadth_first_zip(strat, inp) ==
    LET u == unflatten(strat, inp, 1) IN
    IF u.ok THEN Ok(BreadthFirstManager_new(strat, u.val)) ELSE u

\* dispatch on the node implementation the manager was built with
Tail_advance(m, tail, index_sum) ==
    IF m.strategy = "replaying" THEN advance(tail, 1, index_sum)
    ELSE pure_advance(tail, 1, index_sum)

Tail_rewind(m, tail) ==
    IF m.strategy = "replaying" THEN rewind(tail, 1) ELSE pure_rewind(tail, 1)

\* One call that next() makes on its root node self.tail: the method, the
\* value of index_sum it is made with (the counter, for rewind) and, for
\* advance, whether it returned Some.
Called(op, index_sum, some) == [op |-> op, index_sum |-> index_sum, some |-> some]

\* next() that retries without rewinding the chain
Manager_next_no_rewind(m) ==
    LET first == Tail_advance(m, m.tail, m.index_sum) IN
    IF first.res.some
    THEN [mgr |-> [m EXCEPT !.tail = first.ch],
          item |-> Some(flatten(first.res.val)),
          calls |-> <<Called("advance", m.index_sum, first.res.some)>>]
    ELSE
    LET incr == checked_add(m.index_sum, 1) IN
    IF ~incr.some
    THEN [mgr |-> [m EXCEPT !.tail = first.ch], item |-> None,
          calls |-> <<Called("advance", m.index_sum, FALSE)>>]
    ELSE
    LET second == Tail_advance(m, first.ch, incr.val) IN
    [mgr |-> [m EXCEPT !.tail = second.ch, !.index_sum = incr.val],
     item |-> IF second.res.some THEN Some(flatten(second.res.val)) ELSE None,
     calls |-> <<Called("advance", m.index_sum, FALSE),
                 Called("advance", incr.val, second.res.some)>>]

\* next() that starts the traversal over once the retry has failed
Manager_next_restarts(m) ==
    LET first == Tail_advance(m, m.tail, m.index_sum) IN
    IF first.res.some
    THEN [mgr |-> [m EXCEPT !.tail = first.ch],
          item |-> Some(flatten(first.res.val)),
          calls |-> <<Called("advance", m.index_sum, first.res.some)>>]
    ELSE
    LET incr == checked_add(m.index_sum, 1) IN
    IF ~incr.some
    THEN [mgr |-> [m EXCEPT !.tail = first.ch], item |-> None,
          calls |-> <<Called("advance", m.index_sum, FALSE)>>]
    ELSE
    LET second == Tail_advance(m, Tail_rewind(m, first.ch), incr.val) IN
    IF second.res.some
    THEN [mgr |-> [m EXCEPT !.tail = second.ch, !.index_sum = incr.val],
          item |-> Some(flatten(second.res.val)),
          calls |-> <<Called("advance", m.index_sum, FALSE),
                      Called("rewind", incr.val, FALSE),
                      Called("advance", incr.val, TRUE)>>]
    ELSE [mgr |-> [m EXCEPT !.tail = Tail_rewind(m, second.ch), !.index_sum = 0],
          item |-> None,
          calls |-> <<Called("advance", m.index_sum, FALSE),
                      Called("rewind", incr.val, FALSE),
                      Called("advance", incr.val, FALSE),
                      Called("rewind", 0, FALSE)>>]

\* next() that adds 1 to index_sum also when the first attempt succeeds
Manager_next_eager(m) ==
    LET first == Tail_advance(m, m.tail, m.index_sum) IN
    IF first.res.some
    THEN [mgr |-> [m EXCEPT !.tail = first.ch, !.index_sum = m.index_sum + 1],
          item |-> Some(flatten(first.res.val)),
          calls |-> <<Called("advance", m.index_sum, TRUE)>>]
    ELSE
    LET incr == checked_add(m.index_sum, 1) IN
    IF ~incr.some
    THEN [mgr |-> [m EXCEPT !.tail = first.ch], item |-> None,
          calls |-> <<Called("advance", m.index_sum, FALSE)>>]
    ELSE
    LET second == Tail_advance(m, Tail_rewind(m, first.ch), incr.val) IN
    [mgr |-> [m EXCEPT !.tail = second.ch, !.index_sum = incr.val],
     item |-> IF second.res.some THEN Some(flatten(second.res.val)) ELSE None,
     calls |-> <<Called("advance", m.index_sum, FALSE),
                 Called("rewind", incr.val, FALSE),
                 Called("advance", incr.val, second.res.some)>>]

\* next() that tries one more index_sum when the retry has failed
Manager_next_third(m) ==
    LET first == Tail_advance(m, m.tail, m.index_sum) IN
    IF first.res.some
    THEN [mgr |-> [m EXCEPT !.tail = first.ch],
          item |-> Some(flatten(first.res.val)),
          calls |-> <<Called("advance", m.index_sum, TRUE)>>]
    ELSE
    LET incr == checked_add(m.index_sum, 1) IN
    IF ~incr.some
    THEN [mgr |-> [m EXCEPT !.tail = first.ch], item |-> None,
          calls |-> <<Called("advance", m.index_sum, FALSE)>>]
    ELSE
    LET second == Tail_advance(m, Tail_rewind(m, first.ch), incr.val) IN
    IF second.res.some
    THEN [mgr |-> [m EXCEPT !.tail = second.ch, !.index_sum = incr.val],
          item |-> Some(flatten(second.res.val)),
          calls |-> <<Called("advance", m.index_sum, FALSE),
                      Called("rewind", incr.val, FALSE),
                      Called("advance", incr.val, TRUE)>>]
    ELSE
    LET third == Tail_advance(m, Tail_rewind(m, second.ch), incr.val + 1) IN
    [mgr |-> [m EXCEPT !.tail = third.ch, !.index_sum = incr.val + 1],
     item |-> IF third.res.some THEN Some(flatten(third.res.val)) ELSE None,
     calls |-> <<Called("advance", m.index_sum, FALSE),
                 Called("rewind", incr.val, FALSE),
                 Called("advance", incr.val, FALSE),
                 Called("rewind", incr.val + 1, FALSE),
                 Called("advance", incr.val + 1, third.res.some)>>]

\* next() that adds 2 to index_sum before the retry
Manager_next_skips(m) ==
    LET first == Tail_advance(m, m.tail, m.index_sum) IN
    IF first.res.some
    THEN [mgr |-> [m EXCEPT !.tail = first.ch],
          item |-> Some(flatten(first.res.val)),
          calls |-> <<Called("advance", m.index_sum, TRUE)>>]
    ELSE
    LET incr == checked_add(m.index_sum, 2) IN
    IF ~incr.some
    THEN [mgr |-> [m EXCEPT !.tail = first.ch], item |-> None,
          calls |-> <<Called("advance", m.index_sum, FALSE)>>]
    ELSE
    LET second == Tail_advance(m, Tail_rewind(m, first.ch), incr.val) IN
    [mgr |-> [m EXCEPT !.tail = second.ch, !.index_sum = incr.val],
     item |-> IF second.res.some THEN Some(flatten(second.res.val)) ELSE None,
     calls |-> <<Called("advance", m.index_sum, FALSE),
                 Called("rewind", incr.val, FALSE),
                 Called("advance", incr.val, second.res.some)>>]

\* <BreadthFirstManager as Iterator>::next: the manager after the call, the
\* item returned and the calls made on the root node, in order.
Manager_next(m) ==
    LET first == Tail_advance(m, m.tail, m.index_sum) IN
    IF first.res.some
    THEN [mgr |-> [m EXCEPT !.tail = first.ch],
          item |-> Some(flatten(first.res.val)),
          calls |-> <<Called("advance", m.index_sum, first.res.some)>>]
    ELSE
    LET incr == checked_add(m.index_sum, 1) IN
    IF ~incr.some
    THEN [mgr |-> [m EXCEPT !.tail = first.ch], item |-> None,
          calls |-> <<Called("advance", m.index_sum, FALSE)>>]
    ELSE
    LET second == Tail_advance(m, Tail_rewind(m, first.ch), incr.val) IN
    [mgr |-> [m EXCEPT !.tail = second.ch, !.index_sum = incr.val],
     item |-> IF second.res.some THEN Some(flatten(second.res.val)) ELSE None,
     calls |-> <<Called("advance", m.index_sum, FALSE),
                 Called("rewind", incr.val, FALSE),
                 Called("advance", incr.val, second.res.some)>>]

\* position index of every cursor of a chain, in tuple order
Positions(m) ==
    [k \in 1..Len(m.tail.nodes) |->
        IF m.strategy = "replaying" THEN m.tail.nodes[k].current.index
        ELSE m.tail.nodes[k].iter.index]

\* ------------------------------------------------------------- state
VARIABLES
    strategy,   \* node implementation chosen by the caller
    inputs,     \* the tuple of input iterators handed to breadth_first_zip
    built,      \* Result of breadth_first_zip: Ok(manager) or Err(message)
    out         \* one entry per finished next() call, oldest first

vars == <<strategy, inputs, built, out>>

InputTuples == UNION {[1..n -> InputSeqs] : n \in 0..MaxN}

Init ==
    /\ strategy \in Strategies
    /\ inputs \in InputTuples
    /\ built = breadth_first_zip(strategy, inputs)
    /\ out = <<>>

\* the index_sum at which the caller stops
CallsUpTo(inp) ==
    IF \E k \in 1..Len(inp) : inp[k].inf THEN MaxSumInf ELSE MaxSum

\* the position at which value v sits in input id, -1 if it is not there
ItemIndex(id, v) ==
    IF \E i \in 0..MaxSum : Item(id, i) = v
    THEN CHOOSE i \in 0..MaxSum : Item(id, i) = v
    ELSE -1

\* index tuple of a returned combination
TupleIndex(val) == [k \in 1..Len(val) |-> ItemIndex(k, val[k])]

RECURSIVE SumOf(_)
SumOf(t) == IF Len(t) = 0 THEN 0 ELSE t[1] + SumOf(Tail(t))

\* what is noted of one call: the item returned, its index tuple and index
\* sum, the cursors and counter of the manager after the call, and the calls
\* next() made on the root node
Noted(r) ==
    LET idx == IF r.item.some THEN TupleIndex(r.item.val) ELSE <<>> IN
    [item |-> r.item, idx |-> idx, sum |-> SumOf(idx),
     pos |-> Positions(r.mgr), index_sum |-> r.mgr.index_sum,
     calls |-> r.calls]

\* one call of next() by the owner of the manager
next ==
    /\ built.ok
    /\ built.val.index_sum < CallsUpTo(inputs)
    /\ LET r == Manager_next(built.val) IN
       /\ built' = Ok(r.mgr)
       /\ out' = Append(out, Noted(r))
    /\ UNCHANGED <<strategy, inputs>>

Next == next

Spec == Init /\ [][Next]_vars

\* ------------------------------------------- vocabulary of the claims
N == Len(inputs)
Finite(inp) == \A k \in 1..Len(inp) : ~inp[k].inf
NonEmpty(inp) == \A k \in 1..Len(inp) : HasItem(inp[k], 0)
SomeInfinite(inp) == \E k \in 1..Len(inp) : inp[k].inf

RECURSIVE Product(_)
Product(inp) == IF Len(inp) = 0 THEN 1 ELSE inp[1].len * Product(Tail(inp))

\* largest index sum of an in-range index tuple of finite non-empty inputs
MaxIndexSum(inp) == SumOf([k \in 1..Len(inp) |-> inp[k].len - 1])

\* length of the longest input
Longest(inp) ==
    IF Len(inp) = 0 THEN 0
    ELSE CHOOSE l \in {inp[k].len : k \in 1..Len(inp)} :
            \A k \in 1..Len(inp) : inp[k].len <= l

\* all in-range index tuples of finite inputs
AllTuples(inp) ==
    {f \in [1..Len(inp) -> 0..(MaxLen - 1)] :
        \A k \in 1..Len(inp) : f[k] < inp[k].len}

LexLess(a, b) ==
    \E j \in 1..Len(a) :
        /\ j <= Len(b)
        /\ \A i \in 1..(j - 1) : a[i] = b[i]
        /\ a[j] < b[j]

\* breadth-first order: by index sum, then lexicographically
BfLess(a, b) ==
    \/ SumOf(a) < SumOf(b)
    \/ SumOf(a) = SumOf(b) /\ LexLess(a, b)

\* place of tuple a in the breadth-first ordering of the in-range tuples
Rank(inp, a) == Cardinality({b \in AllTuples(inp) : BfLess(b, a)}) + 1

Returned(j) == out[j].item.some
Idx(j) == out[j].idx

\* The newest entry of out.  Every prefix of out is the out of an earlier
\* state of the same run, so a property of all pairs of calls is stated as
\* a property of the newest call against each earlier one.
Last == Len(out)

\* ---------------------------------------------------------------- C1
\* C1: for finite non-empty inputs of lengths L1..LN the first L1*...*LN
\* calls of next() return a combination, the call after them returns None,
\* and no index tuple is returned twice.
C1_Completeness ==
    (built.ok /\ Finite(inputs) /\ NonEmpty(inputs)) =>
        /\ (Last >= 1 /\ Last <= Product(inputs)) => Returned(Last)
        /\ Last = Product(inputs) + 1 => ~Returned(Last)
        /\ \A i \in 1..(Last - 1) :
              (Returned(i) /\ Returned(Last)) => Idx(i) # Idx(Last)

C1_Witness ==
    /\ built.ok /\ Finite(inputs) /\ NonEmpty(inputs)
    /\ N = 3 /\ inputs[1].len # inputs[2].len /\ Product(inputs) >= 6
    /\ Len(out) = Product(inputs) + 1
    /\ ~Returned(Len(out))

\* ---------------------------------------------------------------- C2
\* C2: for finite non-empty inputs the j-th call of next() returns the
\* j-th in-range index tuple in the order (index sum, then lexicographic),
\* and every call after the last tuple returns None.
C2_SortedOrder ==
    (built.ok /\ Finite(inputs) /\ NonEmpty(inputs) /\ Last >= 1) =>
            IF Last <= Cardinality(AllTuples(inputs))
            THEN /\ Returned(Last)
                 /\ Idx(Last) \in AllTuples(inputs)
                 /\ Rank(inputs, Idx(Last)) = Last
            ELSE ~Returned(Last)

\* three inputs of length 3: (0,0,0), (0,0,1), (0,1,0), (1,0,0), (0,0,2), ...
\* (2,2,2), None
C2_Witness ==
    /\ built.ok /\ N = 3 /\ \A k \in 1..N : ~inputs[k].inf /\ inputs[k].len = 3
    /\ Len(out) = 28
    /\ Idx(1) = <<0, 0, 0>> /\ Idx(2) = <<0, 0, 1>> /\ Idx(3) = <<0, 1, 0>>
    /\ Idx(4) = <<1, 0, 0>> /\ Idx(5) = <<0, 0, 2>> /\ Idx(27) = <<2, 2, 2>>
    /\ ~Returned(28)

\* ---------------------------------------------------------------- C3
\* C3: of two combinations returned one after the other, the later one has
\* an index sum at least as large as the earlier one (finite or infinite
\* inputs).
C3_MonotonicSum ==
    \A i \in 1..(Last - 1) :
        (Returned(i) /\ Returned(Last)) => out[i].sum <= out[Last].sum

C3_Witness ==
    /\ built.ok /\ SomeInfinite(inputs) /\ N >= 2 /\ Len(out) >= 6
    /\ Returned(Len(out)) /\ Returned(Len(out) - 1)
    /\ SumOf(Idx(Len(out) - 1)) < SumOf(Idx(Len(out)))

\* ---------------------------------------------------------------- C4
\* C4: returned combinations with the same index sum come in strictly
\* ascending lexicographic order of their index tuples, the first input's
\* index being the most significant.
C4_TieBreak ==
    \A i \in 1..(Last - 1) :
        (Returned(i) /\ Returned(Last) /\ out[i].sum = out[Last].sum)
            => LexLess(Idx(i), Idx(Last))

C4_Witness ==
    /\ built.ok /\ N = 3 /\ Len(out) >= 3
    /\ Returned(Len(out)) /\ Returned(Len(out) - 1)
    /\ SumOf(Idx(Len(out) - 1)) = SumOf(Idx(Len(out)))
    /\ Idx(Len(out) - 1)[1] < Idx(Len(out))[1]
    /\ Idx(Len(out) - 1)[3] > Idx(Len(out))[3]

\* ---------------------------------------------------------------- C5
\* C5: under either node implementation, component k of every returned
\* combination is the item of input k at the position of cursor k at the
\* time of return.
C5_Validity ==
    (Last >= 1 /\ Returned(Last)) =>
        /\ Len(out[Last].item.val) = N
        /\ \A k \in 1..N :
              /\ HasItem(inputs[k], out[Last].pos[k])
              /\ out[Last].item.val[k] = Item(k, out[Last].pos[k])

\* the caching implementation returns a value read back from its cache
C5_Witness ==
    /\ built.ok /\ strategy = "caching" /\ N = 3
    /\ Last >= 2 /\ Returned(Last)
    /\ out[Last].pos[1] = 1 /\ out[Last].pos[2] = 2 /\ out[Last].pos[3] = 0
    /\ Len(built.val.tail.nodes[2].iter.cache) = 3

\* ---------------------------------------------------------------- C6
\* C6: for finite inputs, once a call of next() returned None every later
\* call returns None.
C6_PostExhaustion ==
    (built.ok /\ Finite(inputs)) =>
        \A i \in 1..(Last - 1) : (~Returned(i)) => ~Returned(Last)

C6_Witness ==
    /\ built.ok /\ Finite(inputs) /\ NonEmpty(inputs) /\ N >= 2
    /\ Last >= Product(inputs) + 3
    /\ ~Returned(Last) /\ ~Returned(Last - 1) /\ ~Returned(Last - 2)
    /\ Returned(Last - 3)

\* ---------------------------------------------------------------- C7
\* C7: under either node implementation, breadth_first_zip of a tuple in
\* which some input is empty returns the empty-iterator error and no
\* manager.
C7_ConstructionFailure ==
    (\E k \in 1..N : ~HasItem(inputs[k], 0)) =>
        (~built.ok /\ built.err = EmptyIteratorError)

\* ---------------------------------------------------------------- C8
\* C8: with all inputs non-empty and at least one of them infinite, no
\* call of next() returns None.
C8_InfiniteNeverEnds ==
    (built.ok /\ NonEmpty(inputs) /\ SomeInfinite(inputs)) =>
        (Last >= 1 => Returned(Last))

\* the threshold has grown to the bound and a combination is still returned
C8_Witness ==
    /\ built.ok /\ NonEmpty(inputs) /\ SomeInfinite(inputs) /\ ~Finite(Tail(inputs))
    /\ N >= 2 /\ \E k \in 1..N : ~inputs[k].inf
    /\ built.val.index_sum = MaxSumInf
    /\ Returned(Last)

\* ---------------------------------------------------------------- C9
\* C9: one input of L >= 1 items yields its L items, each as a 1-tuple, in
\* order, and then None; the input [7] yields (7,) and then None.
C9_SingleSequence ==
    (built.ok /\ N = 1 /\ Finite(inputs) /\ NonEmpty(inputs) /\ Last >= 1) =>
        IF Last <= inputs[1].len
        THEN out[Last].item = Some(<<Item(1, Last - 1)>>)
        ELSE out[Last].item = None

C9_Witness ==
    /\ built.ok /\ N = 1 /\ ~inputs[1].inf /\ inputs[1].len = 1
    /\ Last = 2
    /\ out[1].item = Some(<<7>>)
    /\ out[2].item = None

BothStrategies == <<"replaying", "caching">>

InitPair ==
    /\ strategy = BothStrategies
    /\ inputs \in InputTuples
    /\ built = [s \in 1..2 |-> breadth_first_zip(BothStrategies[s], inputs)]
    /\ out = <<>>

\* one call of next() on each of the two managers
next_both ==
    /\ \A s \in 1..2 : built[s].ok
    /\ built[1].val.index_sum < CallsUpTo(inputs)
    /\ LET r == [s \in 1..2 |-> Manager_next(built[s].val)] IN
       /\ built' = [s \in 1..2 |-> Ok(r[s].mgr)]
       /\ out' = Append(out, [s \in 1..2 |-> Noted(r[s])])
    /\ UNCHANGED <<strategy, inputs>>

NextPair == next_both

SpecPair == InitPair /\ [][NextPair]_vars

\* C11: on the same non-empty inputs the replaying and the caching manager
\* return the same result on every next() call: the same combination, or
\* both the end of data (checked on the newest call of every state, hence
\* on every call).
C11_SameResults ==
    (NonEmpty(inputs) /\ Last >= 1) =>
        out[Last][1].item = out[Last][2].item

\* both managers have returned combinations of index sum 2 and more from
\* two or more inputs, and have reported the end at the same call
C11_Witness ==
    /\ Len(inputs) >= 2
    /\ Last >= 2
    /\ out[Last - 1][1].item.some /\ out[Last - 1][2].item.some
    /\ out[Last - 1][2].sum >= 2
    /\ ~out[Last][1].item.some /\ ~out[Last][2].item.some

\* ------------------------------------------------------------------
\* A chain of nodes used through the BreadthFirst trait alone.  In SpecNode
\* the caller builds the chain for the inputs (Unflatten) and then calls
\* advance(index_sum), with any index_sum, and rewind() on its root in any
\* order; a tail is used by its owner in exactly this way.  built holds
\* the Result of unflatten and out holds the note of the latest call only.
NodeInputSeqs == {q \in InputSeqs : q.len <= MaxNodeLen}
NodeInputTuples == UNION {[1..n -> NodeInputSeqs] : n \in 0..MaxNodeN}

InitNode ==
    /\ strategy \in Strategies
    /\ inputs \in NodeInputTuples
    /\ built = unflatten(strategy, inputs, 1)
    /\ out = <<>>

\* whether advance has returned Some since the chain was built or rewound
SpentBefore == IF out = <<>> THEN FALSE ELSE out[1].spent

\* what is noted of one call on the root: the method, its argument, the
\* BaseCase flag before the call, the result, whether a Some was returned
\* since the chain was built or last rewound, whether this call
\* returned another one, and whether this call is an advance that comes
\* directly after an advance with the same argument that returned None
NodeNoted(op, index_sum, before, res) ==
    [op |-> op, index_sum |-> index_sum, flag |-> before.base, res |-> res,
     spent |-> IF op = "rewind" THEN FALSE ELSE SpentBefore \/ res.some,
     again |-> op = "advance" /\ SpentBefore /\ res.some,
     repeats |-> /\ op = "advance" /\ out /= <<>>
                 /\ out[1].op = "advance" /\ out[1].index_sum = index_sum
                 /\ ~out[1].res.some]

node_advance ==
    /\ built.ok
    /\ \E index_sum \in 0..MaxNodeSum :
         LET r == Tail_advance([strategy |-> strategy], built.val, index_sum) IN
         /\ built' = Ok(r.ch)
         /\ out' = <<NodeNoted("advance", index_sum, built.val, r.res)>>
    /\ UNCHANGED <<strategy, inputs>>

node_rewind ==
    /\ built.ok
    /\ built' = Ok(Tail_rewind([strategy |-> strategy], built.val))
    /\ out' = <<NodeNoted("rewind", 0, built.val, None)>>
    /\ UNCHANGED <<strategy, inputs>>

NextNode == node_advance \/ node_rewind

SpecNode == InitNode /\ [][NextNode]_vars

\* cursor positions of the chain in built, outermost node first
NodePositions == Positions([strategy |-> strategy, tail |-> built.val])

\* C12: whenever advance(index_sum) of a non-terminal node returns a
\* combination, the node's cursor position plus the positions of the
\* cursors of its tail is index_sum; for the replaying node of lib.rs the
\* positions at which the returned values sit in their inputs add up to
\* index_sum as well.
C12_SumIsThreshold ==
    (out /= <<>> /\ Len(inputs) >= 1 /\ out[1].op = "advance"
        /\ out[1].res.some) =>
        /\ SumOf(NodePositions) = out[1].index_sum
        /\ NodePositions[1] + SumOf(Tail(NodePositions)) = out[1].index_sum
        /\ strategy = "replaying" =>
               SumOf(TupleIndex(flatten(out[1].res.val))) = out[1].index_sum

\* a chain of two nodes has returned a combination for index_sum 3 with
\* both cursors off position 0
C12_Witness ==
    /\ out /= <<>> /\ Len(inputs) = 2
    /\ out[1].op = "advance" /\ out[1].res.some /\ out[1].index_sum = 3
    /\ NodePositions[1] >= 1 /\ NodePositions[2] >= 1

\* C16: the terminal node.  advance(index_sum) returns Some(()) if and only
\* if index_sum is 0 and the flag is true, and the flag is false afterwards;
\* any other advance returns None and leaves the flag as it was; rewind sets
\* the flag; since the node was built or last rewound at most one advance
\* has returned Some.
C16_TerminalNode ==
    (out /= <<>> /\ Len(inputs) = 0) =>
        /\ out[1].op = "advance" =>
              /\ out[1].res.some <=> (out[1].index_sum = 0 /\ out[1].flag)
              /\ out[1].res.some => (out[1].res.val = <<>> /\ ~built.val.base)
              /\ (~out[1].res.some) => built.val.base = out[1].flag
              /\ ~out[1].again
        /\ out[1].op = "rewind" => built.val.base

\* the terminal node alone has refused advance(0) because its flag was
\* spent by an earlier advance(0)
C16_Witness ==
    /\ out /= <<>> /\ Len(inputs) = 0
    /\ out[1].op = "advance" /\ out[1].index_sum = 0
    /\ ~out[1].flag /\ ~out[1].res.some /\ out[1].spent

\* ------------------------------------------------------------------
\* The manager's counter and the calls of one next(), under Spec.
\* index_sum of the manager when the newest call of out began
SumBefore == IF Last <= 1 THEN 0 ELSE out[Last - 1].index_sum

C14_TwoAttempts ==
    (built.ok /\ Last >= 1) =>
        LET c == out[Last].calls IN
        /\ Cardinality({i \in 1..Len(c) : c[i].op = "advance"}) <= 2
        /\ c[1] = Called("advance", SumBefore, Returned(Last) /\ Len(c) = 1)
        /\ IF c[1].some
           THEN Len(c) = 1 /\ Returned(Last)
           ELSE /\ Len(c) = 3
                /\ c[2].op = "rewind"
                /\ c[3] = Called("advance", SumBefore + 1, Returned(Last))
                /\ out[Last].index_sum = SumBefore + 1

\* for two or more inputs, a call whose second attempt returned a
\* combination, later a call that returned None after its second attempt
C14_Witness ==
    /\ built.ok /\ Len(inputs) >= 2 /\ Last >= 2
    /\ \E j \in 1..(Last - 1) :
          Len(out[j].calls) = 3 /\ out[j].calls[3].some /\ Returned(j)
    /\ Len(out[Last].calls) = 3 /\ ~out[Last].calls[3].some
    /\ ~Returned(Last)

Cursor_new(strat, iter) ==
    IF strat = "caching" THEN Reiterator_new(iter)
    ELSE LET b == BreadthFirstZipped_new(iter, unflatten(strat, <<>>, 1).val)
         IN  IF b.ok THEN Ok(b.val.nodes[1]) ELSE b

\* self.iter.index / self.current.index
Cursor_position(strat, c) ==
    IF strat = "caching" THEN c.index ELSE c.current.index

\* self.iter.current() / self.current.value.clone()
Cursor_value(strat, c) ==
    IF strat = "caching"
    THEN LET v == Reiterator_current(c) IN [c |-> v.r, item |-> v.item]
    ELSE [c |-> c, item |-> current_value(c)]

\* self.iter.next() / self.current = self.head.next().map(indexed)?
Cursor_next(strat, c) ==
    IF strat = "caching"
    THEN LET n == Reiterator_next(c) IN [c |-> n.r, moved |-> n.res.some]
    ELSE LET h == head_next(c) IN [c |-> h.node, moved |-> h.moved]

\* self.iter.rewind() / the head and current part of rewind
Cursor_rewind(strat, c) ==
    IF strat = "caching" THEN Reiterator_rewind(c) ELSE head_rewind(c).node

InitCursor ==
    /\ strategy \in Strategies
    /\ inputs \in [1..1 -> InputSeqs]
    /\ built = Cursor_new(strategy, NewIterator(1, inputs[1]))
    /\ out = <<>>

\* what is noted of one call: the method, the cursor before the call, the
\* value returned (current) and whether the cursor reported a move (next)
CursorNoted(op, before, item, moved) ==
    [op |-> op, before |-> before, item |-> item, moved |-> moved]

cursor_current ==
    /\ built.ok
    /\ LET v == Cursor_value(strategy, built.val) IN
       /\ built' = Ok(v.c)
       /\ out' = <<CursorNoted("current", built.val, v.item, FALSE)>>
    /\ UNCHANGED <<strategy, inputs>>

cursor_next ==
    /\ built.ok
    /\ Cursor_position(strategy, built.val) < MaxCursorIndex
    /\ LET n == Cursor_next(strategy, built.val) IN
       /\ built' = Ok(n.c)
       /\ out' = <<CursorNoted("next", built.val, None, n.moved)>>
    /\ UNCHANGED <<strategy, inputs>>

cursor_rewind ==
    /\ built.ok
    /\ built' = Ok(Cursor_rewind(strategy, built.val))
    /\ out' = <<CursorNoted("rewind", built.val, None, FALSE)>>
    /\ UNCHANGED <<strategy, inputs>>

NextCursor == cursor_current \/ cursor_next \/ cursor_rewind

SpecCursor == InitCursor /\ [][NextCursor]_vars

\* the element of the input at position i, None past its end
ElementAt(i) ==
    IF HasItem(inputs[1], i) THEN Some(Item(1, i)) ELSE None

\* position of the cursor in built
Position == Cursor_position(strategy, built.val)

\* C17: after any sequence of current, next and rewind calls, current
\* returns the element of the input at the cursor's position, and None
\* only if the input has no element there.
C17_ValueAtPosition ==
    (built.ok /\ out /= <<>> /\ out[1].op = "current") =>
        out[1].item = ElementAt(Position)

C19_Rewind ==
    built.ok =>
        /\ strategy = "replaying" =>
              built.val.orig_head = enumerate(NewIterator(1, inputs[1]))
        /\ (out /= <<>> /\ out[1].op = "rewind") =>
              /\ Position = 0
              /\ Cursor_value(strategy, built.val).item = ElementAt(0)
              /\ strategy = "caching" =>
                    built.val = [out[1].before EXCEPT !.index = 0]
              /\ strategy = "replaying" =>
                    /\ built.val.orig_head = out[1].before.orig_head
                    /\ built.val.head =
                          Enumerate_next(built.val.orig_head).iter

\* a cursor that had moved to position 2 with two elements seen has been
\* rewound
C19_Witness ==
    /\ built.ok /\ out /= <<>> /\ out[1].op = "rewind"
    /\ Cursor_position(strategy, out[1].before) = 2
    /\ strategy = "caching" => Len(out[1].before.cache) = 2

\* ------------------------------------------------------------------
\* the elements 0 .. n-1 of input id, in source order
Prefix(id, n) == [i \in 1..n |-> Item(id, i - 1)]

\* C20: in every state of a traversal with caching nodes, the cache of
\* each node is the prefix of its input in source order, never longer
\* than the input, and the source iterator has been pulled exactly as many
\* times as the cache has entries: no element is pulled twice, whatever
\* the number of rewinds.
C20_CachePrefix ==
    (built.ok /\ strategy = "caching") =>
        \A k \in 1..Len(inputs) :
            LET r == built.val.tail.nodes[k].iter IN
            /\ r.cache = Prefix(k, Len(r.cache))
            /\ r.iter.pos = Len(r.cache)
            /\ HasItem(inputs[k], Len(r.cache) - 1) \/ Len(r.cache) = 0

\* after several rewinds a node reads position 0 from a cache that holds
\* three elements of its input
C20_Witness ==
    /\ built.ok /\ strategy = "caching" /\ Len(inputs) >= 2
    /\ built.val.index_sum >= 3
    /\ \E k \in 1..Len(inputs) :
          LET r == built.val.tail.nodes[k].iter IN
          Len(r.cache) = 3 /\ r.index = 0

\* ------------------------------------------------------------------
\* The calls made inside next().  SpecTrace is Spec with the record of
\* calls switched on: built is the Result of breadth_first_zip, out holds
\* the note of the latest next() only, and the chain's log holds the steps
\* taken inside the latest next().
TraceInputSeqs == {q \in InputSeqs : q.len <= MaxTraceLen}
TraceInputTuples == UNION {[1..n -> TraceInputSeqs] : n \in 0..MaxTraceN}

\* the manager with the record of calls switched on
Traced(m) ==
    [m EXCEPT !.tail.tracing = TRUE,
              !.tail.somes = [k \in 1..(Len(m.tail.nodes) + 1) |-> 0]]

InitTrace ==
    /\ strategy \in Strategies
    /\ inputs \in TraceInputTuples
    /\ built = LET b == breadth_first_zip(strategy, inputs) IN
               IF b.ok THEN Ok(Traced(b.val)) ELSE b
    /\ out = <<>>

\* what is noted of one next(): the item, index_sum before the call, the
\* calls on the root, and the steps of the call before this one
TraceNoted(r, before) ==
    [item |-> r.item, before |-> before.index_sum, calls |-> r.calls,
     prev |-> before.tail.log]

traced_next ==
    /\ built.ok
    /\ built.val.index_sum < MaxTraceSum
    /\ LET r == Manager_next([built.val EXCEPT !.tail.log = <<>>]) IN
       /\ built' = Ok(r.mgr)
       /\ out' = <<TraceNoted(r, built.val)>>
    /\ UNCHANGED <<strategy, inputs>>

NextTrace == traced_next

SpecTrace == InitTrace /\ [][NextTrace]_vars

\* the steps of the latest next(), and of the latest two
Log == IF built.ok THEN built.val.tail.log ELSE <<>>
Log2 == IF out = <<>> THEN Log ELSE out[1].prev \o Log

\* number of combinations of the inputs after input k whose index sum is r
RECURSIVE FnSum(_, _)
FnSum(f, S) ==
    IF S = {} THEN 0
    ELSE LET j == CHOOSE j \in S : TRUE IN f[j] + FnSum(f, S \ {j})

TailCombinations(k, r) ==
    Cardinality({t \in [(k + 1)..Len(inputs) -> 0..r] :
                    /\ \A j \in (k + 1)..Len(inputs) : HasItem(inputs[j], t[j])
                    /\ FnSum(t, (k + 1)..Len(inputs)) = r})

\* C21: inside advance(index_sum) a node moves its cursor on from position
\* pos only right after its tail's advance(index_sum - pos) has returned
\* None, and by then the tail has returned, since its last rewind, as many
\* combinations as the inputs after the node have with index sum
\* index_sum - pos: every one of them.
C21_TailExhaustedFirst ==
    \A i \in 1..Len(Log) :
        Log[i].ev = "move" =>
            /\ i >= 2
            /\ Log[i - 1].ev = "return"
            /\ Log[i - 1].node = Log[i].node + 1
            /\ ~Log[i - 1].some
            /\ Log[i].count = TailCombinations(Log[i].node, Log[i].arg - Log[i].pos)

\* the outermost of three nodes has moved its cursor after its tail had
\* returned two combinations for the remainder
C21_Witness ==
    /\ Len(inputs) = 3
    /\ \E i \in 1..Len(Log) :
          Log[i].ev = "move" /\ Log[i].node = 1 /\ Log[i].count >= 2

\* of the latest two next() calls, the steps in which node k calls its
\* tail's advance and the steps in which that tail's rewind is entered
TailSteps(k) ==
    LET OfTail(e) == \/ e.ev = "ask" /\ e.node = k
                     \/ e.ev = "rewind" /\ e.node = k + 1
    IN  SelectSeq(Log2, OfTail)

\* C22: the step right after a node has moved its cursor is the rewind of
\* its tail, so the tail is rewound before its advance is called again;
\* and, over the latest two next() calls, two calls of a tail's advance
\* with no rewind of the tail between them are made from the same cursor
\* position of the calling node.
C22_RestartOrdering ==
    /\ \A i \in 1..Len(Log) :
          Log[i].ev = "move" =>
              /\ i < Len(Log)
              /\ Log[i + 1].ev = "rewind"
              /\ Log[i + 1].node = Log[i].node + 1
    /\ \A k \in 1..Len(inputs) :
          LET S == TailSteps(k) IN
          \A j \in 2..Len(S) :
              (S[j].ev = "ask" /\ S[j - 1].ev = "ask") =>
                  S[j].pos = S[j - 1].pos

\* the outermost of three nodes has moved its cursor, had its tail
\* rewound, and then called the tail's advance from the new position
C22_Witness ==
    /\ Len(inputs) = 3
    /\ \E i \in 1..Len(Log) : \E j \in 1..Len(Log) :
          /\ Log[i].ev = "move" /\ Log[i].node = 1
          /\ j > i + 1 /\ Log[j].ev = "ask" /\ Log[j].node = 1
          /\ Log[j].pos = Log[i].pos + 1

\* C28: in a traversal driven by next(), every advance(index_sum) of every
\* node is entered with the node's cursor position at most index_sum, so
\* index_sum.checked_sub(position) is never None; and after every next()
\* the cursor positions add up to at most the manager's index_sum.
C28_NoUnderflow ==
    /\ \A i \in 1..Len(Log) :
          /\ Log[i].ev = "advance" => Log[i].pos <= Log[i].arg
          /\ Log[i].ev /= "underflow"
    /\ built.ok => SumOf(Positions(built.val)) <= built.val.index_sum

\* an inner node has been entered with its cursor exactly at index_sum,
\* and index_sum was not 0
C28_Witness ==
    \E i \in 1..Len(Log) :
        /\ Log[i].ev = "advance" /\ Log[i].node = 2 /\ Len(inputs) >= 2
        /\ Log[i].pos = Log[i].arg /\ Log[i].arg >= 1

\* C29 as stated: in a traversal driven by next() with caching nodes and
\* non-empty inputs, whenever the value of a cursor is requested its
\* position is at most the length of the cache.
C29_IndexWithinCache ==
    NonEmpty(inputs) =>
        \A i \in 1..Len(Log) :
            Log[i].ev = "current" => Log[i].pos <= Log[i].arg

\* C29: in a traversal driven by next() with caching nodes, whenever the
\* value of a cursor is requested, its position is at most the length of
\* the cache unless the cache already holds the whole input, and then the
\* request returns None.  So the item pulled on a miss is the input's
\* element at that position: the request returns Some exactly if the input
\* has an element there, and the cache then holds that element at that
\* position.
C29_NoGapInCache ==
    \A i \in 1..Len(Log) :
        Log[i].ev = "current" =>
            /\ \/ Log[i].pos <= Log[i].arg
               \/ ~HasItem(inputs[Log[i].node], Log[i].arg) /\ ~Log[i].some
            /\ Log[i].some <=> HasItem(inputs[Log[i].node], Log[i].pos)
            /\ Log[i].some =>
                  LET c == built.val.tail.nodes[Log[i].node].iter.cache IN
                  /\ Len(c) > Log[i].pos
                  /\ c[Log[i].pos + 1] = Item(Log[i].node, Log[i].pos)

\* one next() has requested a value that was not yet cached, at position 1
\* or later, and a value that was
C29_Witness ==
    /\ strategy = "caching"
    /\ \E i \in 1..Len(Log) : \E j \in 1..Len(Log) :
          /\ Log[i].ev = "current" /\ Log[i].pos = Log[i].arg
          /\ Log[i].pos >= 1 /\ Log[i].some
          /\ Log[j].ev = "current" /\ Log[j].pos < Log[j].arg

\* ------------------------------------------------------------------
\* The advance loop with and without its test index < index_sum.  In
\* SpecGuard the caller builds two managers of the same strategy from the
\* same inputs, the second over a chain whose loops move the cursor
\* whenever the tail has failed, and calls next() on both in turn.  built
\* is the pair of Results, out the pair of items of the latest call, and
\* both chains record their steps.
Unguarded(m) == [m EXCEPT !.tail.guarded = FALSE]

InitGuard ==
    /\ strategy \in Strategies
    /\ inputs \in TraceInputTuples
    /\ built = LET b == breadth_first_zip(strategy, inputs) IN
               IF b.ok THEN <<Ok(Traced(b.val)), Ok(Unguarded(Traced(b.val)))>>
               ELSE <<b, b>>
    /\ out = <<>>

next_guarded_and_not ==
    /\ \A s \in 1..2 : built[s].ok
    /\ built[1].val.index_sum < MaxTraceSum
    /\ LET r == [s \in 1..2 |->
                   Manager_next([built[s].val EXCEPT !.tail.log = <<>>])] IN
       /\ built' = [s \in 1..2 |-> Ok(r[s].mgr)]
       /\ out' = <<[s \in 1..2 |-> r[s].item]>>
    /\ UNCHANGED <<strategy, inputs>>

NextGuard == next_guarded_and_not

SpecGuard == InitGuard /\ [][NextGuard]_vars

\* C23: for all inputs and on every next() call, the manager whose advance
\* loops have the test index < index_sum and the manager whose loops have
\* not return the same result.
C23_GuardIsOptimization ==
    out /= <<>> => out[1][1] = out[1][2]

\* a next() in which a loop without the test moved a cursor that stood at
\* index_sum already, and both managers returned the same combination
C23_Witness ==
    /\ out /= <<>> /\ Len(inputs) >= 2
    /\ out[1][1].some /\ out[1][2].some
    /\ \E i \in 1..Len(built[2].val.tail.log) :
          LET e == built[2].val.tail.log[i] IN
          e.ev = "move" /\ e.pos >= e.arg

\* ---------------------------------------------------------------- C24
\* the steps of the latest next() at which a node found its input ended:
\* the replaying node's head.next() returned None, or the caching node's
\* current() had no element at the cursor's position
Exhausted(i) ==
    \/ Log[i].ev = "end"
    \/ Log[i].ev = "current" /\ ~Log[i].some

\* C24: whenever a node finds that its input has ended, its advance returns
\* None at once and nothing panics; the parent node goes on with its own
\* loop (moves its cursor, or returns None itself), and the manager either
\* ends the call with None or rewinds the chain for its second attempt.
C24_ExhaustionIsNone ==
    (built.ok /\ out /= <<>>) =>
        /\ ~built.val.tail.panicked
        /\ \A i \in 1..Len(Log) : Exhausted(i) =>
              /\ i < Len(Log)
              /\ Log[i + 1].ev = "return" /\ Log[i + 1].node = Log[i].node
              /\ ~Log[i + 1].some
              /\ IF Log[i].node > 1
                 THEN /\ i + 1 < Len(Log)
                      /\ Log[i + 2].node = Log[i].node - 1
                      /\ Log[i + 2].ev \in {"move", "end", "return"}
                 ELSE \/ i + 1 = Len(Log) /\ ~out[1].item.some
                      \/ /\ i + 1 < Len(Log)
                         /\ Log[i + 2].ev = "rewind" /\ Log[i + 2].node = 1

\* a next() in which the input of an inner node ended, its parent moved on
\* and the call returned a combination
C24_Witness ==
    /\ built.ok /\ out /= <<>> /\ out[1].item.some
    /\ \E i \in 1..(Len(Log) - 2) :
          /\ Exhausted(i) /\ Log[i].node > 1
          /\ Log[i + 2].ev = "move"

\* ------------------------------------------------------------------
\* The manager run up to usize::MAX.  In SpecOverflow the caller builds a
\* manager, for either build of core (with or without overflow checks), and
\* calls next() until a call panics or until MaxOverCalls calls after the
\* first one that stopped on the overflow of index_sum.  out holds the note
\* of the latest call only.
OverInputSeqs == {q \in InputSeqs : q.len <= MaxOverLen}
OverInputTuples == UNION {[1..n -> OverInputSeqs] : n \in 0..MaxOverN}

\* the manager as the build with overflow checks = b makes it
Build(m, b) ==
    IF m.strategy = "replaying"
    THEN [m EXCEPT !.tail.nodes =
            [k \in 1..Len(@) |-> [@[k] EXCEPT !.head.checks = b,
                                              !.orig_head.checks = b]]]
    ELSE m

InitOverflow ==
    /\ strategy \in Strategies
    /\ inputs \in OverInputTuples
    /\ \E b \in BOOLEAN :
          built = LET r == breadth_first_zip(strategy, inputs) IN
                  IF r.ok THEN Ok(Build(r.val, b)) ELSE r
    /\ out = <<>>

\* the call stopped at `self.index_sum.checked_add(1)?`
Stopped(m, r) ==
    /\ m.index_sum = UsizeMax
    /\ Len(r.calls) = 1 /\ ~r.calls[1].some

\* item, calls: what next() returned and the calls it made on the root;
\* before, after: index_sum; panicked: the call ended in a panic;
\* stops: how many earlier calls stopped on the overflow
OverNoted(m, r) ==
    [item |-> r.item, calls |-> r.calls,
     before |-> m.index_sum, after |-> r.mgr.index_sum,
     panicked |-> r.mgr.tail.panicked,
     stops |-> IF out = <<>> THEN 0
               ELSE out[1].stops + (IF out[1].stopped THEN 1 ELSE 0),
     stopped |-> Stopped(m, r)]

next_to_overflow ==
    /\ built.ok /\ ~built.val.tail.panicked
    /\ out /= <<>> => out[1].stops < MaxOverCalls
    /\ LET r == Manager_next(built.val) IN
       /\ built' = Ok(r.mgr)
       /\ out' = <<OverNoted(built.val, r)>>
    /\ UNCHANGED <<strategy, inputs>>

NextOverflow == next_to_overflow

SpecOverflow == InitOverflow /\ [][NextOverflow]_vars

\* C25: a next() call that finds index_sum at usize::MAX and whose
\* advance(usize::MAX) fails returns None, leaves index_sum at usize::MAX
\* and does not rewind the chain; and every call after such a call finds
\* index_sum at usize::MAX and returns None.
C25_StopsAtMax ==
    (built.ok /\ out /= <<>> /\ ~out[1].panicked) =>
        /\ (out[1].before = UsizeMax /\ ~out[1].calls[1].some) =>
              /\ ~out[1].item.some
              /\ out[1].after = UsizeMax
              /\ built.val.index_sum = UsizeMax
              /\ out[1].calls = <<Called("advance", UsizeMax, FALSE)>>
        /\ out[1].stops >= 1 =>
              /\ out[1].before = UsizeMax
              /\ ~out[1].item.some
              /\ out[1].stopped

\* the second call after the first one that stopped on the overflow, for
\* two inputs
C25_Witness ==
    /\ built.ok /\ out /= <<>> /\ Len(inputs) = 2
    /\ out[1].stops = 2 /\ out[1].stopped
    /\ ~out[1].item.some /\ built.val.index_sum = UsizeMax

\* ---------------------------------------------------------------- C26
\* C26: for the empty tuple of inputs breadth_first_zip returns Ok, the
\* first next() returns the empty combination () and every later next()
\* returns None.
C26_EmptyTuple ==
    Len(inputs) = 0 =>
        /\ built.ok
        /\ Last >= 1 => out[1].item = Some(<<>>)
        /\ \A j \in 2..Last : ~Returned(j)

\* the manager of the empty tuple after (), None, None
C26_Witness ==
    /\ Len(inputs) = 0 /\ built.ok /\ Len(built.val.tail.nodes) = 0
    /\ Last = 3
    /\ out[1].item = Some(<<>>) /\ ~Returned(2) /\ ~Returned(3)

\* ---------------------------------------------------------------- C27
\* C27: after every next() that returns a combination, the cursor of each
\* node stands at the index of the item the node contributed to that
\* combination, and the BaseCase flag is spent.
C27_StateIsLastCombination ==
    (built.ok /\ Last >= 1 /\ Returned(Last)) =>
        /\ out[Last].pos = Idx(Last)
        /\ Positions(built.val) = Idx(Last)
        /\ ~built.val.tail.base

\* a combination of three inputs with no two indices equal, returned by a
\* call that moved the threshold, and the cursors standing at its indices
C27_Witness ==
    /\ built.ok /\ N = 3 /\ Last >= 2 /\ Returned(Last)
    /\ Len(out[Last].calls) = 3
    /\ Idx(Last) = <<0, 0, 2>>
    /\ Positions(built.val) = <<0, 0, 2>>
    /\ ~built.val.tail.base

\* ---------------------------------------------------------------- C30
\* C30: for finite inputs, an advance(t) on the root of a chain that comes
\* directly after an advance(t) that returned None, with no rewind between
\* the two, returns None as well.
C30_FailureRepeats ==
    (built.ok /\ Finite(inputs) /\ out /= <<>> /\ out[1].repeats) =>
        ~out[1].res.some

\* a chain of two finite inputs whose advance(1) has returned both of its
\* combinations, failed, and failed again when repeated
C30_Witness ==
    /\ built.ok /\ Finite(inputs) /\ Len(inputs) = 2
    /\ out /= <<>> /\ out[1].repeats /\ out[1].index_sum = 1
    /\ out[1].spent /\ ~out[1].res.some
    /\ NodePositions = <<1, 0>>

\* ---------------------------------------------------------------- C31
\* the call j is the first one that returned None
FirstNone(j) == ~Returned(j) /\ \A i \in 1..(j - 1) : Returned(i)

\* C31: for finite non-empty inputs, every call that returns a combination
\* leaves index_sum at most (L1-1)+...+(LN-1) and at most one above what the
\* call before left; the first call that returns None is the one that
\* moves index_sum from (L1-1)+...+(LN-1) to one more, and by then a
\* combination of every index sum from 0 to (L1-1)+...+(LN-1) was returned.
C31_FirstNone ==
    (built.ok /\ Finite(inputs) /\ NonEmpty(inputs) /\ Last >= 1) =>
        /\ Returned(Last) =>
              /\ out[Last].index_sum <= MaxIndexSum(inputs)
              /\ out[Last].index_sum <=
                    (IF Last = 1 THEN 0 ELSE out[Last - 1].index_sum + 1)
        /\ FirstNone(Last) =>
              /\ out[Last].index_sum = MaxIndexSum(inputs) + 1
              /\ out[Last].calls =
                    <<Called("advance", MaxIndexSum(inputs), FALSE),
                      Called("rewind", MaxIndexSum(inputs) + 1, FALSE),
                      Called("advance", MaxIndexSum(inputs) + 1, FALSE)>>
              /\ \A t \in 0..MaxIndexSum(inputs) :
                    \E i \in 1..(Last - 1) : out[i].sum = t

\* the first None of three inputs of lengths 2, 3 and 2, after all twelve
\* combinations, in the call that moves index_sum from 4 to 5
C31_Witness ==
    /\ built.ok /\ N = 3 /\ Finite(inputs)
    /\ inputs[1].len = 2 /\ inputs[2].len = 3 /\ inputs[3].len = 2
    /\ Last = 13 /\ FirstNone(Last)
    /\ out[Last].index_sum = 5 /\ out[Last - 1].sum = 4

\* ------------------------------------------------------------------
\* next() one pass of a loop at a time.  In SpecLoop a call of next() is a
\* run of steps: the manager calls advance on the root, each pass of a
\* node's `loop` is two steps (from the top of the loop to the call of the
\* tail's advance, and from the tail's return to the end of the pass), and
\* BaseCase::advance is one step.  built is the manager as the steps have
\* changed it so far.  out is the state of the call:
\*   pc       "idle" between calls, "loop" at the top of the loop of the
\*            newest invocation, "returned" when an advance has returned
\*   stack    the invocations of advance in progress, the newest last
\*   ret      what the advance that returned last returned
\*   attempt  1 before self.index_sum.checked_add(1), 2 after
\*   start    the Result as it was when the call began
\*   item     what the latest finished call returned
\*   called   whether a call has finished
LoopInputSeqs == {q \in InputSeqs : q.len <= MaxLoopLen}
LoopInputTuples == UNION {[1..n -> LoopInputSeqs] : n \in 0..MaxLoopN}

\* the position of the cursor of node k
NodePos(m, k) ==
    IF m.strategy = "replaying" THEN m.tail.nodes[k].current.index
    ELSE m.tail.nodes[k].iter.index

\* an invocation advance(index_sum) of node k: `iters` counts the passes
\* of its loop begun so far, `entry` is the cursor's position at the call
Frame(m, k, index_sum) ==
    [node |-> k, index_sum |-> index_sum, iters |-> 0,
     entry |-> IF k > Len(m.tail.nodes) THEN 0 ELSE NodePos(m, k)]

InitLoop ==
    /\ strategy \in Strategies
    /\ inputs \in LoopInputTuples
    /\ built = breadth_first_zip(strategy, inputs)
    /\ out = [pc |-> "idle", stack |-> <<>>, ret |-> None, attempt |-> 1,
              start |-> built, item |-> None, called |-> FALSE]

Top == out.stack[Len(out.stack)]
Pop == SubSeq(out.stack, 1, Len(out.stack) - 1)

\* next() is called: self.tail.advance(self.index_sum)
next_call ==
    /\ built.ok /\ out.pc = "idle"
    /\ built.val.index_sum < MaxLoopSum
    /\ out' = [out EXCEPT !.pc = "loop",
                          !.stack = <<Frame(built.val, 1, built.val.index_sum)>>,
                          !.ret = None, !.attempt = 1, !.start = built]
    /\ UNCHANGED <<strategy, inputs, built>>

\* BaseCase::advance, or the top of a node's loop up to the call
\* self.tail.advance(index_sum.checked_sub(position)?)
loop_head ==
    /\ built.ok /\ out.pc = "loop"
    /\ LET f == Top
           k == f.node
           m == built.val
       IN  IF k > Len(m.tail.nodes)
           THEN LET r == BaseCase_advance(m.tail, f.index_sum) IN
                /\ built' = Ok([m EXCEPT !.tail = r.ch])
                /\ out' = [out EXCEPT !.pc = "returned", !.ret = r.res,
                                      !.stack = Pop]
           ELSE LET rem == checked_sub(f.index_sum, NodePos(m, k))
                    g == [f EXCEPT !.iters = @ + 1]
                IN  /\ built' = built
                    /\ out' = IF ~rem.some
                              THEN [out EXCEPT !.pc = "returned",
                                               !.ret = None, !.stack = Pop]
                              ELSE [out EXCEPT !.stack =
                                      Pop \o <<g, Frame(m, k + 1, rem.val)>>]
    /\ UNCHANGED <<strategy, inputs>>

\* the rest of a pass of the loop of node k after self.tail.advance
\* returned ret, up to but not including self.tail.rewind():
\* [ch, res, again], where `again` tells that the cursor has moved, so that
\* the tail is rewound and the loop goes round once more
loop_rest(ch, k, index_sum, ret) ==
    LET self == ch.nodes[k]
        pos == self.current.index
    IN  IF ret.some
        THEN [ch |-> ch, again |-> FALSE,
              res |-> Some(<<current_value(self).val, ret.val>>)]
        ELSE IF ch.guarded /\ ~(pos < index_sum)
        THEN [ch |-> ch, again |-> FALSE, res |-> None]
        ELSE
        LET h == head_next(self) IN
        IF ~h.moved
        THEN [ch |-> [ch EXCEPT !.nodes[k] = h.node,
                                !.panicked = @ \/ h.panicked],
              again |-> FALSE, res |-> None]
        ELSE [ch |-> [ch EXCEPT !.nodes[k] = h.node],
              again |-> TRUE, res |-> None]

pure_loop_rest(ch, k, index_sum, ret) ==
    LET self == ch.nodes[k]
        pos == self.iter.index
    IN  IF ret.some
        THEN LET c == Reiterator_current(self.iter) IN
             [ch |-> [ch EXCEPT !.nodes[k].iter = c.r], again |-> FALSE,
              res |-> IF c.item.some
                      THEN Some(<<c.item.val, ret.val>>) ELSE None]
        ELSE IF ch.guarded /\ ~(pos < index_sum)
        THEN [ch |-> ch, again |-> FALSE, res |-> None]
        ELSE
        LET n == Reiterator_next(self.iter) IN
        IF ~n.res.some
        THEN [ch |-> ch, again |-> FALSE, res |-> None]
        ELSE [ch |-> [ch EXCEPT !.nodes[k].iter = n.r],
              again |-> TRUE, res |-> None]

\* the tail's advance has returned into the loop of the newest invocation;
\* r is what the pass did before self.tail.rewind()
loop_tail ==
    /\ built.ok /\ out.pc = "returned" /\ out.stack /= <<>>
    /\ LET f == Top
           m == built.val
       IN  \E r \in {IF m.strategy = "replaying"
                     THEN loop_rest(m.tail, f.node, f.index_sum, out.ret)
                     ELSE pure_loop_rest(m.tail, f.node, f.index_sum,
                                         out.ret)} :
           /\ built' = Ok([m EXCEPT !.tail =
                             IF ~r.again THEN r.ch
                             ELSE IF m.strategy = "replaying"
                             THEN rewind(r.ch, f.node + 1)
                             ELSE pure_rewind(r.ch, f.node + 1)])
           /\ out' = IF r.again THEN [out EXCEPT !.pc = "loop"]
                     ELSE [out EXCEPT !.ret = r.res, !.stack = Pop]
    /\ UNCHANGED <<strategy, inputs>>

\* the root's advance has returned to next()
next_return ==
    /\ built.ok /\ out.pc = "returned" /\ out.stack = <<>>
    /\ LET m == built.val
           incr == checked_add(m.index_sum, 1)
           done == IF out.ret.some THEN Some(flatten(out.ret.val)) ELSE None
       IN  IF out.ret.some \/ out.attempt = 2 \/ ~incr.some
           THEN /\ built' = built
                /\ out' = [out EXCEPT !.pc = "idle", !.item = done,
                                      !.called = TRUE]
           ELSE \E n \in {[m EXCEPT !.index_sum = incr.val,
                                     !.tail = Tail_rewind(m, m.tail)]} :
                /\ built' = Ok(n)
                /\ out' = [out EXCEPT !.pc = "loop", !.attempt = 2,
                                      !.stack = <<Frame(n, 1, incr.val)>>]
    /\ UNCHANGED <<strategy, inputs>>

NextLoop == next_call \/ loop_head \/ loop_tail \/ next_return

SpecLoop == InitLoop /\ [][NextLoop]_vars

\* the steps of a call that has begun are taken; the caller need not call
SpecLoopFair ==
    /\ SpecLoop
    /\ WF_vars(loop_head) /\ WF_vars(loop_tail) /\ WF_vars(next_return)

\* a finished call has done what Manager_next does in one step
LoopAgrees ==
    (built.ok /\ out.pc = "idle" /\ out.called) =>
        LET r == Manager_next(out.start.val) IN
        built.val = r.mgr /\ out.item = r.item

\* ---------------------------------------------------------------- C32
\* In every invocation advance(index_sum) of a node that is in progress:
\* index_sum is at most the manager's index_sum; the loop has begun at most
\* index_sum + 1 passes; and the cursor has moved by exactly one position
\* per pass after the first, so it stands at entry + iters at the top of a
\* pass that has not begun and at entry + iters - 1 within a pass.
LoopBound ==
    built.ok =>
        \A i \in 1..Len(out.stack) :
            LET f == out.stack[i] IN
            f.node <= Len(built.val.tail.nodes) =>
                /\ f.index_sum <= built.val.index_sum
                /\ f.iters <= f.index_sum + 1
                /\ NodePos(built.val, f.node) =
                      IF i = Len(out.stack) /\ out.pc = "loop"
                      THEN f.entry + f.iters
                      ELSE f.entry + f.iters - 1

\* C32: every next() call that has begun returns, for finite and infinite
\* inputs, and within it every invocation of a node's advance begins at
\* most index_sum + 1 passes of its loop, the cursor moving one position
\* forward from each pass to the next.
C32_Terminates ==
    /\ []LoopBound
    /\ (out.pc /= "idle") ~> (out.pc = "idle")

\* a call on two inputs, the first endless: the root's advance(2) is
\* within the third pass of its loop, the cursor at position 2
C32_Witness ==
    /\ built.ok /\ Len(inputs) = 2 /\ inputs[1].inf
    /\ built.val.index_sum = 2
    /\ Len(out.stack) >= 2
    /\ out.stack[1].node = 1 /\ out.stack[1].index_sum = 2
    /\ out.stack[1].iters = 3
    /\ NodePos(built.val, 1) = 2

============================================================================
